---- MODULE Spec2Model ----
(***************************************************************************)
(* The client-side orchestration of the series tracker front end:          *)
(*   App            (frontend/src/App.tsx)            view switching       *)
(*   SearchBar      (components/SearchBar.tsx)        debounced input      *)
(*   SearchPage     (types/index.ts 104-237)          search requests      *)
(*   ShowDetailPage (types/index.ts 264-759)          loads, watch state,  *)
(*                                                    comments, insights,  *)
(*                                                    episode modal        *)
(*   CommentsSection (unnamed/part_000)               comment form         *)
(*   AIInsightPanel (components/AIInsightPanel.tsx)   generate button      *)
(* Every await of a handler is a suspension point: the part before it is   *)
(* one action (the user operation), the part after it is the settlement    *)
(* action of the request it issued.  React component state lives as long   *)
(* as the component is mounted; a state setter called by a continuation of *)
(* an unmounted component has no effect.                                   *)
(***************************************************************************)
EXTENDS Integers, Sequences, FiniteSets, TLC

(* ------------------------------ bounds -------------------------------- *)
\* search requests issued per mount of the search page
MaxSearches == 2
\* activations (mounts) of the detail page
MaxActivations == 2
\* watched toggles issued
MaxToggles == 2
\* openings of the episode modal
MaxOpens == 2
\* comment submissions issued
MaxAdds == 2
\* comment deletions issued
MaxDeletes == 1
\* insight generations issued
MaxGenerations == 2
\* operations (toggle, open, add, delete, generate) where all are combined
MaxOps == 3
\* keystrokes counted within one debounce window
MaxKeystrokes == 2

(* ----------------------------- constants ------------------------------ *)
Null == "null"
SearchFailedMsg == "Failed to search shows. Please try again."
LoadFailedMsg == "Failed to load show details. Please try again."
\* <textarea maxLength={2000}>
maxLength == 2000

\* T | null is held as a sequence of length at most one.
None == <<>>
Some(x) == <<x>>
Range(s) == { s[i] : i \in 1..Len(s) }

(* --------------------------- strings, trim ---------------------------- *)
\* A query is a sequence of characters; " " is the whitespace character.
Queries == { <<>>, <<" ">>, <<"a">>, <<" ", "a">>, <<"b">> }

IsSpace(c) == c = " "

RECURSIVE TrimStart(_)
TrimStart(s) == IF s # <<>> /\ IsSpace(Head(s)) THEN TrimStart(Tail(s)) ELSE s

RECURSIVE TrimEnd(_)
TrimEnd(s) ==
  IF s # <<>> /\ IsSpace(s[Len(s)]) THEN TrimEnd(SubSeq(s, 1, Len(s) - 1)) ELSE s

\* String.prototype.trim
trim(s) == TrimEnd(TrimStart(s))

(* ------------------------- the remote service ------------------------- *)
\* What may become of a request: the service answers with a success status,
\* it answers with another status, or fetch itself rejects.
Outcomes == {"ok", "status", "network"}
FailureOutcomes == Outcomes \ {"ok"}

\* as fetchApi, without the test of response.ok
fetchApiIgnoringStatus(outcome) == outcome # "network"

\* fetchApi: the promise resolves when the response is ok; it rejects with an
\* ApiError when it is not, and with fetch's own error when fetch rejects.
\* The handlers' catch blocks do not look at the error.
fetchApi(outcome) == outcome = "ok"

\* search(query) -> ordered list of shows (by id), a function of the query
searchShows(q) ==
  IF q = <<"a">> THEN <<1, 2>> ELSE IF q = <<"b">> THEN <<2>> ELSE <<>>

\* getShowDetail(showId) -> the seasons of the show, each an ordered list of
\* episodes (by id).  Show 2 has no season; the first season of show 1 is
\* not the one with the smallest number.
getShowDetails(id) ==
  IF id = 1
  THEN << [season |-> 2, episodes |-> <<1, 2>>], [season |-> 1, episodes |-> <<3>>] >>
  ELSE << >>

LoadKinds == {"details", "watched", "comments"}
OpKinds == {"toggle", "open", "add", "delete", "generate"}

\* The comments the service holds at the start: one on show 1, one on
\* episode 1 of show 1.  A comment's content is held as the number of
\* leading whitespace characters and the length of its trimmed text.
InitialComments ==
  << [id |-> 2, show_id |-> 1, episode_id |-> 1, content |-> [ws |-> 0, len |-> 1]],
     [id |-> 1, show_id |-> 1, episode_id |-> 0, content |-> [ws |-> 0, len |-> 1]] >>

\* The episodes the service holds as watched at the start, per show.
InitialWatched == (1 :> {2}) @@ (2 :> {})

\* The length of a comment's content, in characters.
Length(content) == content.ws + content.len

\* The contents a user may offer to the textarea of a comment form.
Drafts ==
  { [ws |-> 0, len |-> 0], [ws |-> 1, len |-> 0], [ws |-> 1, len |-> 1],
    [ws |-> 0, len |-> 2001] }

NoDraft == [ws |-> 0, len |-> 0]

\* getComments(scope): the comments of exactly that scope, in the service's order
commentsOf(all, show, episode) ==
  LET InScope(c) == c.show_id = show /\ c.episode_id = episode
  IN  SelectSeq(all, InScope)

VARIABLES
  \* App
  view,              \* currentView.type: "search" | "show"
  showId,            \* currentView.showId (0 in the search view)
  activations,       \* number of mounts of ShowDetailPage so far
  \* SearchBar
  query, debouncedQuery,
  \* SearchPage
  results, searchIsLoading, hasSearched, searchError,
  searchReqs,        \* searchShows requests in flight: [seq, q]
  searchSeq,         \* number of search requests issued by this mount
  resultsSeq,        \* seq of the request whose settlement wrote results/error last
  keystrokes,        \* keystrokes since the debounce timer last ran out (up to MaxKeystrokes)
  \* ShowDetailPage
  showData, watchedEpisodes, showComments, showInsight, selectedSeason,
  isLoading, error, isLoadingInsight,
  selectedEpisode, episodeComments, episodeInsight,
  isLoadingEpisodeComments, isLoadingEpisodeInsight,
  \* the Promise.all of loadShowData
  loadStatus,        \* per load: "idle" | "pending" | "ok" | "fail"
  loadedWatched,     \* the resolved value of getWatchedEpisodes
  loadedComments,    \* the resolved value of getShowComments
  \* the CommentsSection and AIInsightPanel instances of the page (show)
  \* and of the modal (episode)
  showForm, episodeForm,       \* [newComment, isSubmitting]
  episodeFormId,               \* which mount of the modal's CommentsSection
  showHasGenerated, episodeHasGenerated,
  \* requests in flight
  toggleReqs, episodeLoadReqs, addReqs, deleteReqs, insightReqs,
  issued,            \* requests issued so far, per kind of operation
  \* the service
  srvWatched,        \* watched episode ids, per show
  srvComments,       \* all comments, most recent first
  srvClock,          \* insights generated so far
  \* history
  raced,             \* a toggle overlapped another on its episode, or the watched load
  episodeCommentsFrom,  \* episode whose getEpisodeComments response episodeComments holds
  openedFromClosed,  \* the modal was closed when the open session was opened
  overLengthOffered, \* the forms a content longer than maxLength was offered to
  failed,            \* the operations of which a request of the mounted page has failed
  removedDuringAdd   \* the owners a delete was issued of while an add was in flight

appVars == <<view, showId, activations>>
searchVars == <<query, debouncedQuery, results, searchIsLoading, hasSearched,
                searchError, searchReqs, searchSeq, resultsSeq, keystrokes>>
pageVars == <<showData, watchedEpisodes, showComments, showInsight,
              selectedSeason, isLoading, error, isLoadingInsight>>
modalVars == <<selectedEpisode, episodeComments, episodeInsight,
               isLoadingEpisodeComments, isLoadingEpisodeInsight>>
loadVars == <<loadStatus, loadedWatched, loadedComments>>
childVars == <<showForm, episodeForm, episodeFormId, showHasGenerated,
               episodeHasGenerated>>
netVars == <<toggleReqs, episodeLoadReqs, addReqs, deleteReqs, insightReqs, issued>>
srvVars == <<srvWatched, srvComments, srvClock>>
histVars == <<raced, episodeCommentsFrom, openedFromClosed, overLengthOffered,
              failed, removedDuringAdd>>
detailVars == <<pageVars, modalVars, loadVars, childVars, netVars, histVars>>
vars == <<appVars, searchVars, detailVars, srvVars>>

(* ------------------------ mounting, unmounting ------------------------ *)
\* The useState defaults of SearchPage and SearchBar.
SearchDefaults(q, dq, res, ld, hs, err, reqs, seq, rseq) ==
  /\ q = <<>>
  /\ dq = <<>>
  /\ res = <<>>
  /\ ld = FALSE
  /\ hs = FALSE
  /\ err = Null
  /\ reqs = {}
  /\ seq = 0
  /\ rseq = 0

\* as PageDefaults, with useState(false) for isLoading
PageDefaultsNotLoading(sd, we, sc, si, ss, il, er, ili) ==
  /\ sd = None
  /\ we = {}
  /\ sc = <<>>
  /\ si = None
  /\ ss = 0
  /\ il = FALSE
  /\ er = Null
  /\ ili = FALSE

\* The useState defaults of ShowDetailPage (lines 265-283).
PageDefaults(sd, we, sc, si, ss, il, er, ili) ==
  /\ sd = None
  /\ we = {}
  /\ sc = <<>>
  /\ si = None
  /\ ss = 0
  /\ il = TRUE
  /\ er = Null
  /\ ili = FALSE

ModalDefaults(se, ec, ei, ilc, ili) ==
  /\ se = 0
  /\ ec = <<>>
  /\ ei = None
  /\ ilc = FALSE
  /\ ili = FALSE

\* The useState defaults of CommentsSection (part_000 lines 19-20).
FormDefaults == [newComment |-> NoDraft, isSubmitting |-> FALSE]

MountSearch ==
  /\ SearchDefaults(query', debouncedQuery', results', searchIsLoading',
                    hasSearched', searchError', searchReqs', searchSeq', resultsSeq')
  /\ keystrokes' = 0

MountPage ==
  /\ PageDefaults(showData', watchedEpisodes', showComments', showInsight',
                  selectedSeason', isLoading', error', isLoadingInsight')
  /\ ModalDefaults(selectedEpisode', episodeComments', episodeInsight',
                   isLoadingEpisodeComments', isLoadingEpisodeInsight')
  /\ loadedWatched' = {}
  /\ loadedComments' = <<>>
  /\ showForm' = FormDefaults
  /\ episodeForm' = FormDefaults
  /\ episodeFormId' = 0
  /\ showHasGenerated' = FALSE
  /\ episodeHasGenerated' = FALSE
  \* the continuations of an unmounted page can store nothing: of its
  \* requests only those that change the service are kept
  /\ episodeLoadReqs' = {}
  /\ insightReqs' = {}
  /\ UNCHANGED <<toggleReqs, addReqs, deleteReqs, issued>>
  /\ raced' = FALSE
  /\ episodeCommentsFrom' = 0
  /\ openedFromClosed' = FALSE
  /\ overLengthOffered' = {}
  /\ failed' = {}
  /\ removedDuringAdd' = {}

Init ==
  /\ view = "search"
  /\ showId = 0
  /\ activations = 0
  /\ SearchDefaults(query, debouncedQuery, results, searchIsLoading,
                    hasSearched, searchError, searchReqs, searchSeq, resultsSeq)
  /\ keystrokes = 0
  /\ PageDefaults(showData, watchedEpisodes, showComments, showInsight,
                  selectedSeason, isLoading, error, isLoadingInsight)
  /\ ModalDefaults(selectedEpisode, episodeComments, episodeInsight,
                   isLoadingEpisodeComments, isLoadingEpisodeInsight)
  /\ loadStatus = [k \in LoadKinds |-> "idle"]
  /\ loadedWatched = {}
  /\ loadedComments = <<>>
  /\ showForm = FormDefaults
  /\ episodeForm = FormDefaults
  /\ episodeFormId = 0
  /\ showHasGenerated = FALSE
  /\ episodeHasGenerated = FALSE
  /\ toggleReqs = {}
  /\ episodeLoadReqs = {}
  /\ addReqs = {}
  /\ deleteReqs = {}
  /\ insightReqs = {}
  /\ issued = [k \in OpKinds |-> 0]
  /\ srvWatched = InitialWatched
  /\ srvComments = InitialComments
  /\ srvClock = 0
  /\ raced = FALSE
  /\ episodeCommentsFrom = 0
  /\ openedFromClosed = FALSE
  /\ overLengthOffered = {}
  /\ failed = {}
  /\ removedDuringAdd = {}

(* --------------------------- SearchPage ------------------------------- *)
\* handleSearch(query) up to its await: the empty branch, or the request
\* issued.  A request records the keystrokes of the window before it.
handleSearch(q) ==
  IF trim(q) = <<>>
  THEN /\ results' = <<>>
       /\ hasSearched' = FALSE
       /\ resultsSeq' = 0
       /\ UNCHANGED <<searchIsLoading, searchError, searchReqs, searchSeq>>
  ELSE /\ searchIsLoading' = TRUE
       /\ searchError' = Null
       /\ hasSearched' = TRUE
       /\ searchSeq' = searchSeq + 1
       /\ searchReqs' = searchReqs \cup
            {[seq |-> searchSeq + 1, q |-> q, keys |-> keystrokes]}
       /\ UNCHANGED <<results, resultsSeq>>

\* as effectDependency, with the effect keyed on the input value itself
effectDependencyOnQuery(q, dq) == q

\* The value SearchBar's effect depends on: [debouncedQuery, onSearch]
\* (line 18), onSearch being stable.
effectDependency(q, dq) == dq

\* SearchBar's effect (lines 14-18) after a render: it runs when the value
\* it depends on has changed, and calls onSearch when that is not blank.
runEffect(before, after) ==
  IF after # before /\ trim(after) # <<>>
  THEN /\ searchSeq < MaxSearches
       /\ handleSearch(trim(after))
  ELSE UNCHANGED <<results, searchIsLoading, hasSearched, searchError,
                   searchReqs, searchSeq, resultsSeq>>

\* useDebounce(value, delay): the value it returns once its timer has run
\* out, no keystroke having restarted it
useDebounce(value) == value

\* <input onChange={(e) => setQuery(e.target.value)}> and handleClear; the
\* keystroke restarts the timer of useDebounce.
TypeQuery(q) ==
  /\ view = "search"
  /\ q # query
  /\ query' = q
  /\ keystrokes' = IF keystrokes < MaxKeystrokes THEN keystrokes + 1 ELSE keystrokes
  /\ UNCHANGED debouncedQuery
  /\ runEffect(effectDependency(query, debouncedQuery),
               effectDependency(query', debouncedQuery'))
  /\ UNCHANGED <<appVars, detailVars, srvVars>>

\* useDebounce(query, 500): the quiet interval has elapsed since the last
\* keystroke, debouncedQuery takes the value of query, and the effect of
\* SearchBar (lines 14-18) runs when debouncedQuery has changed.
DebounceElapsed ==
  /\ view = "search"
  /\ keystrokes > 0
  /\ debouncedQuery' = useDebounce(query)
  /\ keystrokes' = 0
  /\ UNCHANGED query
  /\ runEffect(effectDependency(query, debouncedQuery),
               effectDependency(query', debouncedQuery'))
  /\ UNCHANGED <<appVars, detailVars, srvVars>>

\* as SearchStore, with a catch block that leaves the results displayed
SearchStoreKeepsResults(r, ok) ==
  /\ IF ok
     THEN /\ results' = searchShows(r.q)
          /\ UNCHANGED searchError
     ELSE /\ searchError' = SearchFailedMsg
          /\ UNCHANGED results
  /\ resultsSeq' = r.seq

\* What the settlement of a search request stores: try / catch.
SearchStore(r, ok) ==
  /\ IF ok
     THEN /\ results' = searchShows(r.q)
          /\ UNCHANGED searchError
     ELSE /\ searchError' = SearchFailedMsg
          /\ results' = <<>>
  /\ resultsSeq' = r.seq

\* as SearchSettle, with the request issued again when it has failed
SearchSettleRetrying(r, ok) ==
  /\ view = "search"
  /\ r \in searchReqs
  /\ searchReqs' = IF ok THEN searchReqs \ {r} ELSE searchReqs
  /\ SearchStore(r, ok)
  /\ searchIsLoading' = ok
  /\ UNCHANGED <<query, debouncedQuery, hasSearched, searchSeq, keystrokes>>
  /\ UNCHANGED <<appVars, detailVars, srvVars>>

\* handleSearch after its await: try / catch / finally.
SearchSettle(r, ok) ==
  /\ view = "search"
  /\ r \in searchReqs
  /\ searchReqs' = searchReqs \ {r}
  /\ SearchStore(r, ok)
  /\ searchIsLoading' = FALSE
  /\ UNCHANGED <<query, debouncedQuery, hasSearched, searchSeq, keystrokes>>
  /\ UNCHANGED <<appVars, detailVars, srvVars>>

SearchSucceeds == \E r \in searchReqs : SearchSettle(r, fetchApi("ok"))
SearchFails ==
  \E r \in searchReqs, o \in FailureOutcomes : SearchSettle(r, fetchApi(o))
Type == \E q \in Queries : TypeQuery(q)
\* the one query typed where the search page only leads to the detail page
TypeShowName == TypeQuery(<<"a">>)

(* ------------------ App: search <-> show-detail ----------------------- *)
\* ShowCard onClick -> handleSelectShow(showId): the search page is
\* unmounted, ShowDetailPage is mounted and its effect runs loadShowData up
\* to the await of Promise.all, which issues the three loads.
SelectShow(id) ==
  /\ view = "search"
  /\ id \in Range(results)
  /\ activations < MaxActivations
  /\ view' = "show"
  /\ showId' = id
  /\ activations' = activations + 1
  /\ MountSearch
  /\ MountPage
  /\ loadStatus' = [k \in LoadKinds |-> "pending"]
  /\ UNCHANGED srvVars

\* onBack -> handleBack: ShowDetailPage is unmounted and its state is gone.
Back ==
  /\ view = "show"
  /\ view' = "search"
  /\ showId' = 0
  /\ MountSearch
  /\ MountPage
  /\ loadStatus' = [k \in LoadKinds |-> "idle"]
  /\ UNCHANGED <<activations, srvVars>>

(* ------------------------- loadShowData ------------------------------- *)
\* as promiseAll, fulfilled by the first load that resolves (Promise.any)
promiseAny(st) ==
  IF \E k \in LoadKinds : st[k] = "fail" THEN "rejected"
  ELSE IF \E k \in LoadKinds : st[k] = "ok" THEN "fulfilled"
  ELSE "pending"

\* as promiseAll, waiting for every load and never rejecting (Promise.allSettled)
promiseAllSettled(st) ==
  IF \A k \in LoadKinds : st[k] \in {"ok", "fail"} THEN "fulfilled" ELSE "pending"

\* Promise.all over the three loads: rejected once one load has failed,
\* fulfilled once all have resolved.
promiseAll(st) ==
  IF \E k \in LoadKinds : st[k] = "fail" THEN "rejected"
  ELSE IF \A k \in LoadKinds : st[k] = "ok" THEN "fulfilled"
  ELSE "pending"

\* as defaultSeason, falling back to season 1 when there is no season
defaultSeasonOne(seasons, current) ==
  IF Len(seasons) > 0 THEN seasons[1].season ELSE 1

\* as defaultSeason, taking the last season of the list
defaultSeasonLast(seasons, current) ==
  IF Len(seasons) > 0 THEN seasons[Len(seasons)].season ELSE current

\* setSelectedSeason(details.seasons[0].season) when there is a season
defaultSeason(seasons, current) ==
  IF Len(seasons) > 0 THEN seasons[1].season ELSE current

\* One of the three loads settles.  The continuation of the await runs when
\* this settles Promise.all: the try block when all three have resolved, the
\* catch block on the first failure; then finally.
LoadSettle(k, ok) ==
  /\ view = "show"
  /\ loadStatus[k] = "pending"
  /\ loadStatus' = [loadStatus EXCEPT ![k] = IF ok THEN "ok" ELSE "fail"]
  /\ loadedWatched' = IF k = "watched" /\ ok THEN srvWatched[showId] ELSE loadedWatched
  /\ loadedComments' =
       IF k = "comments" /\ ok THEN commentsOf(srvComments, showId, 0)
       ELSE loadedComments
  /\ IF promiseAll(loadStatus) # "pending" \/ promiseAll(loadStatus') = "pending"
     THEN UNCHANGED pageVars
     ELSE IF promiseAll(loadStatus') = "fulfilled"
     THEN /\ showData' = Some(getShowDetails(showId))
          /\ watchedEpisodes' = loadedWatched'
          /\ showComments' = loadedComments'
          /\ selectedSeason' = defaultSeason(getShowDetails(showId), selectedSeason)
          /\ isLoading' = FALSE
          /\ UNCHANGED <<showInsight, error, isLoadingInsight>>
     ELSE /\ error' = LoadFailedMsg
          /\ isLoading' = FALSE
          /\ UNCHANGED <<showData, watchedEpisodes, showComments, showInsight,
                         selectedSeason, isLoadingInsight>>
  /\ raced' = (raced \/ (k = "watched" /\ ok /\ toggleReqs # {}))
  /\ UNCHANGED <<episodeCommentsFrom, openedFromClosed, overLengthOffered, failed,
                 removedDuringAdd>>
  /\ UNCHANGED <<appVars, searchVars, modalVars, childVars, netVars, srvVars>>

LoadSucceeds == \E k \in LoadKinds : LoadSettle(k, fetchApi("ok"))
LoadFails ==
  \E k \in LoadKinds, o \in FailureOutcomes : LoadSettle(k, fetchApi(o))

\* the view rendered by ShowDetailPage (lines 458-482)
Phase ==
  IF view = "search" THEN "Idle"
  ELSE IF isLoading THEN "Loading"
  ELSE IF error # Null \/ showData = None THEN "Failed"
  ELSE "Ready"

\* as SelectSeason, with the episode modal closed by the change of season
SelectSeasonClosingModal(n) ==
  /\ Phase = "Ready"
  /\ \E i \in 1..Len(showData[1]) : showData[1][i].season = n
  /\ n # selectedSeason
  /\ selectedSeason' = n
  /\ selectedEpisode' = 0
  /\ episodeComments' = <<>>
  /\ episodeInsight' = None
  /\ UNCHANGED <<isLoadingEpisodeComments, isLoadingEpisodeInsight>>
  /\ UNCHANGED <<showData, watchedEpisodes, showComments, showInsight,
                 isLoading, error, isLoadingInsight>>
  /\ UNCHANGED <<appVars, searchVars, loadVars, childVars, netVars,
                 histVars, srvVars>>

\* Season tab onClick={() => setSelectedSeason(season.season)}
SelectSeason(n) ==
  /\ Phase = "Ready"
  /\ \E i \in 1..Len(showData[1]) : showData[1][i].season = n
  /\ n # selectedSeason
  /\ selectedSeason' = n
  /\ UNCHANGED <<showData, watchedEpisodes, showComments, showInsight,
                 isLoading, error, isLoadingInsight>>
  /\ UNCHANGED <<appVars, searchVars, modalVars, loadVars, childVars, netVars,
                 histVars, srvVars>>

\* seasons.find((s) => s.season === selectedSeason): the episodes of the
\* first season with that number, none when there is no such season
currentEpisodes ==
  IF showData = None THEN <<>>
  ELSE LET seasons == showData[1]
           hits == { i \in 1..Len(seasons) : seasons[i].season = selectedSeason }
       IN  IF hits = {} THEN <<>>
           ELSE seasons[CHOOSE i \in hits : \A j \in hits : i <= j].episodes

\* An EpisodeCard of the episode is rendered.
EpisodeShown(ep) == Phase = "Ready" /\ ep \in Range(currentEpisodes)

(* ----------------------- handleToggleWatched -------------------------- *)
\* as optimisticUpdate, without the local change
noOptimisticUpdate(prev, episodeId, isCurrentlyWatched) == prev

\* as revertOnError, without the revert
noRevert(prev, episodeId, isCurrentlyWatched) == prev

\* as revertOnError, with the two branches exchanged
revertToOpposite(prev, episodeId, isCurrentlyWatched) ==
  IF isCurrentlyWatched THEN prev \ {episodeId} ELSE prev \cup {episodeId}

\* as revertOnError, with next built from an empty set: new Set()
revertFromEmpty(prev, episodeId, isCurrentlyWatched) ==
  IF isCurrentlyWatched THEN {episodeId} ELSE {}

\* the optimistic update (lines 323-331)
optimisticUpdate(prev, episodeId, isCurrentlyWatched) ==
  IF isCurrentlyWatched THEN prev \ {episodeId} ELSE prev \cup {episodeId}

\* the revert on error (lines 342-350)
revertOnError(prev, episodeId, isCurrentlyWatched) ==
  IF isCurrentlyWatched THEN prev \cup {episodeId} ELSE prev \ {episodeId}

\* as requestKind, with the two requests exchanged
requestKindExchanged(isCurrentlyWatched) ==
  IF isCurrentlyWatched THEN "markEpisodeWatched" ELSE "unmarkEpisodeWatched"

\* the request handleToggleWatched issues (lines 333-338)
requestKind(isCurrentlyWatched) ==
  IF isCurrentlyWatched THEN "unmarkEpisodeWatched" ELSE "markEpisodeWatched"

\* markEpisodeWatched / unmarkEpisodeWatched at the service
applyToggle(watched, show, episodeId, kind) ==
  [watched EXCEPT ![show] =
     IF kind = "unmarkEpisodeWatched" THEN @ \ {episodeId} ELSE @ \cup {episodeId}]

\* handleToggleWatched(episodeId) up to its await.  A request records, besides
\* what the closure captured, the watched set before the call and whether
\* it has been in flight together with another toggle of its episode.
Toggle(ep) ==
  /\ EpisodeShown(ep)
  /\ issued["toggle"] < MaxToggles
  /\ LET isCurrentlyWatched == ep \in watchedEpisodes
     IN  /\ watchedEpisodes' = optimisticUpdate(watchedEpisodes, ep, isCurrentlyWatched)
         /\ toggleReqs' =
              { [r EXCEPT !.overlapped = @ \/ r.ep = ep] : r \in toggleReqs } \cup
              { [id |-> issued["toggle"] + 1, mount |-> activations,
                 show |-> showId, ep |-> ep,
                 isCurrentlyWatched |-> isCurrentlyWatched,
                 kind |-> requestKind(isCurrentlyWatched),
                 before |-> watchedEpisodes,
                 overlapped |-> \E r \in toggleReqs : r.ep = ep] }
  /\ issued' = [issued EXCEPT !["toggle"] = @ + 1]
  /\ raced' = (raced \/ \E r \in toggleReqs : r.ep = ep)
  /\ UNCHANGED <<showData, showComments, showInsight, selectedSeason, isLoading,
                 error, isLoadingInsight>>
  /\ UNCHANGED <<episodeLoadReqs, addReqs, deleteReqs, insightReqs>>
  /\ UNCHANGED <<episodeCommentsFrom, openedFromClosed, overLengthOffered, failed,
                 removedDuringAdd>>
  /\ UNCHANGED <<appVars, searchVars, modalVars, loadVars, childVars, srvVars>>

\* The page that issued the request is still mounted.
Mounted(r) == view = "show" /\ r.mount = activations

\* handleToggleWatched after its await: nothing on success, the revert on
\* failure.  The service applies the change exactly when the request succeeds.
ToggleSettle(r, ok) ==
  /\ r \in toggleReqs
  /\ toggleReqs' = toggleReqs \ {r}
  /\ srvWatched' = IF ok THEN applyToggle(srvWatched, r.show, r.ep, r.kind)
                   ELSE srvWatched
  /\ watchedEpisodes' =
       IF Mounted(r) /\ ~ok
       THEN revertOnError(watchedEpisodes, r.ep, r.isCurrentlyWatched)
       ELSE watchedEpisodes
  /\ UNCHANGED <<showData, showComments, showInsight, selectedSeason, isLoading,
                 error, isLoadingInsight>>
  /\ UNCHANGED <<episodeLoadReqs, addReqs, deleteReqs, insightReqs, issued>>
  /\ UNCHANGED <<srvComments, srvClock>>
  /\ UNCHANGED <<appVars, searchVars, modalVars, loadVars, childVars>>
  /\ failed' = IF Mounted(r) /\ ~ok THEN failed \cup {"toggle"} ELSE failed
  /\ UNCHANGED <<raced, episodeCommentsFrom, openedFromClosed, overLengthOffered,
                 removedDuringAdd>>

ToggleWatched == \E ep \in {1, 2, 3} : Toggle(ep)
ToggleSucceeds == \E r \in toggleReqs : ToggleSettle(r, fetchApi("ok"))
ToggleFails ==
  \E r \in toggleReqs, o \in FailureOutcomes : ToggleSettle(r, fetchApi(o))

(* -------------------------- episode modal ---------------------------- *)
\* as loadRequests, with no request while a load is already in flight
loadRequestsUnlessLoading(reqs, id, ep) ==
  IF reqs = {} THEN {[id |-> id, ep |-> ep]} ELSE reqs

\* getEpisodeComments(showId, episode.id) is called on every invocation
\* (line 396): the requests in flight after the call
loadRequests(reqs, id, ep) == reqs \cup {[id |-> id, ep |-> ep]}

\* handleViewEpisodeComments(episode) up to its await.  The modal's
\* CommentsSection and AIInsightPanel are mounted when selectedEpisode was
\* null, and stay mounted when it was not.
OpenEpisode(ep) ==
  /\ EpisodeShown(ep)
  /\ issued["open"] < MaxOpens
  /\ selectedEpisode' = ep
  /\ isLoadingEpisodeComments' = TRUE
  /\ episodeInsight' = None
  /\ UNCHANGED <<episodeComments, isLoadingEpisodeInsight>>
  /\ episodeLoadReqs' = loadRequests(episodeLoadReqs, issued["open"] + 1, ep)
  /\ issued' = [issued EXCEPT !["open"] = @ + 1]
  /\ IF selectedEpisode = 0
     THEN /\ episodeForm' = FormDefaults
          /\ episodeHasGenerated' = FALSE
          /\ episodeFormId' = issued["open"] + 1
     ELSE UNCHANGED <<episodeForm, episodeHasGenerated, episodeFormId>>
  /\ openedFromClosed' = (selectedEpisode = 0)
  /\ UNCHANGED <<raced, episodeCommentsFrom, overLengthOffered, failed,
                 removedDuringAdd>>
  /\ UNCHANGED <<showForm, showHasGenerated>>
  /\ UNCHANGED <<toggleReqs, addReqs, deleteReqs, insightReqs>>
  /\ UNCHANGED <<appVars, searchVars, pageVars, loadVars, srvVars>>

\* as storeEpisodeComments, with the list left as it is when the load fails
storeEpisodeCommentsKeeping(r, ok) ==
  /\ episodeComments' =
       IF ok THEN commentsOf(srvComments, showId, r.ep) ELSE episodeComments
  /\ episodeCommentsFrom' = IF ok THEN r.ep ELSE episodeCommentsFrom

\* What the settlement of getEpisodeComments stores: try / catch.
storeEpisodeComments(r, ok) ==
  /\ episodeComments' = IF ok THEN commentsOf(srvComments, showId, r.ep) ELSE <<>>
  /\ episodeCommentsFrom' = IF ok THEN r.ep ELSE 0

\* handleViewEpisodeComments after its await: try / catch / finally.
EpisodeLoadSettle(r, ok) ==
  /\ r \in episodeLoadReqs
  /\ episodeLoadReqs' = episodeLoadReqs \ {r}
  /\ storeEpisodeComments(r, ok)
  /\ isLoadingEpisodeComments' = FALSE
  /\ UNCHANGED <<selectedEpisode, episodeInsight, isLoadingEpisodeInsight>>
  /\ UNCHANGED <<raced, openedFromClosed, overLengthOffered, failed,
                 removedDuringAdd>>
  /\ UNCHANGED <<toggleReqs, addReqs, deleteReqs, insightReqs, issued>>
  /\ UNCHANGED <<appVars, searchVars, pageVars, loadVars, childVars, srvVars>>

\* handleCloseEpisodeModal; the modal's CommentsSection and AIInsightPanel
\* are unmounted.
CloseEpisodeModal ==
  /\ view = "show"
  /\ selectedEpisode # 0
  /\ selectedEpisode' = 0
  /\ episodeComments' = <<>>
  /\ episodeInsight' = None
  /\ UNCHANGED <<isLoadingEpisodeComments, isLoadingEpisodeInsight>>
  /\ episodeForm' = FormDefaults
  /\ episodeHasGenerated' = FALSE
  /\ episodeCommentsFrom' = 0
  /\ openedFromClosed' = FALSE
  /\ UNCHANGED <<raced, overLengthOffered, failed,
                 removedDuringAdd>>
  /\ UNCHANGED <<showForm, showHasGenerated, episodeFormId>>
  /\ UNCHANGED <<appVars, searchVars, pageVars, loadVars, netVars, srvVars>>

ViewEpisodeComments == \E ep \in {1, 2, 3} : OpenEpisode(ep)
EpisodeLoadSucceeds == \E r \in episodeLoadReqs : EpisodeLoadSettle(r, fetchApi("ok"))
EpisodeLoadFails ==
  \E r \in episodeLoadReqs, o \in FailureOutcomes : EpisodeLoadSettle(r, fetchApi(o))

(* --------------------------- AIInsightPanel --------------------------- *)
\* as canGenerate, with a button that is rendered and enabled while loading
canGenerateWhileLoading(insight, isLoadingProp, hasGenerated) == TRUE

\* A button with onClick={handleGenerate} is rendered and not disabled:
\* the "Generate Insight" button of the initial state (lines 54-64), or the
\* "Regenerate" button beside an insight (lines 97-116).  While isLoading
\* the panel renders the disabled button or the skeleton.
canGenerate(insight, isLoadingProp, hasGenerated) ==
  IF ~hasGenerated /\ insight = None THEN ~isLoadingProp
  ELSE IF isLoadingProp THEN FALSE
  ELSE insight # None

\* generateInsight at the service: the insight of the scope, stamped
generateInsight(show, episode, clock) ==
  [show_id |-> show, episode_id |-> episode, generated_at |-> clock + 1]

\* AIInsightPanel.handleGenerate -> handleGenerateShowInsight up to its await
GenerateShowInsight ==
  /\ Phase = "Ready"
  /\ canGenerate(showInsight, isLoadingInsight, showHasGenerated)
  /\ issued["generate"] < MaxGenerations
  /\ showHasGenerated' = TRUE
  /\ isLoadingInsight' = TRUE
  /\ insightReqs' = insightReqs \cup
       {[id |-> issued["generate"] + 1, session |-> 0, episode_id |-> 0]}
  /\ issued' = [issued EXCEPT !["generate"] = @ + 1]
  /\ UNCHANGED <<showData, watchedEpisodes, showComments, showInsight,
                 selectedSeason, isLoading, error>>
  /\ UNCHANGED <<showForm, episodeForm, episodeFormId, episodeHasGenerated>>
  /\ UNCHANGED <<toggleReqs, episodeLoadReqs, addReqs, deleteReqs>>
  /\ UNCHANGED <<appVars, searchVars, modalVars, loadVars, histVars, srvVars>>

\* AIInsightPanel.handleGenerate -> handleGenerateEpisodeInsight up to its await
GenerateEpisodeInsight ==
  /\ Phase = "Ready"
  /\ selectedEpisode # 0
  /\ canGenerate(episodeInsight, isLoadingEpisodeInsight, episodeHasGenerated)
  /\ issued["generate"] < MaxGenerations
  /\ episodeHasGenerated' = TRUE
  /\ isLoadingEpisodeInsight' = TRUE
  /\ insightReqs' = insightReqs \cup
       {[id |-> issued["generate"] + 1, session |-> episodeFormId,
         episode_id |-> selectedEpisode]}
  /\ issued' = [issued EXCEPT !["generate"] = @ + 1]
  /\ UNCHANGED <<selectedEpisode, episodeComments, episodeInsight,
                 isLoadingEpisodeComments>>
  /\ UNCHANGED <<showForm, episodeForm, episodeFormId, showHasGenerated>>
  /\ UNCHANGED <<toggleReqs, episodeLoadReqs, addReqs, deleteReqs>>
  /\ UNCHANGED <<appVars, searchVars, pageVars, loadVars, histVars, srvVars>>

\* as storeInsight, with a catch block that clears the stored insight
dropInsightOnError(prev, insight, ok) == IF ok THEN Some(insight) ELSE None

\* What the settlement of generateInsight stores: setShowInsight(insight) /
\* setEpisodeInsight(insight) in the try block, nothing in the catch block.
storeInsight(prev, insight, ok) == IF ok THEN Some(insight) ELSE prev

\* handleGenerateShowInsight / handleGenerateEpisodeInsight after the await:
\* try / catch / finally.  session 0 is the show's panel.
InsightSettle(r, ok) ==
  /\ r \in insightReqs
  /\ insightReqs' = insightReqs \ {r}
  /\ srvClock' = IF ok THEN srvClock + 1 ELSE srvClock
  /\ IF r.session = 0
     THEN /\ showInsight' =
               storeInsight(showInsight,
                            generateInsight(showId, r.episode_id, srvClock), ok)
          /\ isLoadingInsight' = FALSE
          /\ UNCHANGED <<episodeInsight, isLoadingEpisodeInsight>>
     ELSE /\ episodeInsight' =
               storeInsight(episodeInsight,
                            generateInsight(showId, r.episode_id, srvClock), ok)
          /\ isLoadingEpisodeInsight' = FALSE
          /\ UNCHANGED <<showInsight, isLoadingInsight>>
  /\ UNCHANGED <<showData, watchedEpisodes, showComments, selectedSeason,
                 isLoading, error>>
  /\ UNCHANGED <<selectedEpisode, episodeComments, isLoadingEpisodeComments>>
  /\ UNCHANGED <<toggleReqs, episodeLoadReqs, addReqs, deleteReqs, issued>>
  /\ UNCHANGED <<srvWatched, srvComments>>
  /\ UNCHANGED <<appVars, searchVars, loadVars, childVars>>
  /\ failed' = IF ok THEN failed ELSE failed \cup {"generate"}
  /\ UNCHANGED <<raced, episodeCommentsFrom, openedFromClosed, overLengthOffered,
                 removedDuringAdd>>

InsightSucceeds == \E r \in insightReqs : InsightSettle(r, fetchApi("ok"))
InsightFails ==
  \E r \in insightReqs, o \in FailureOutcomes : InsightSettle(r, fetchApi(o))

(* --------------------------- CommentsSection -------------------------- *)
\* The first maxLength characters of a content.
truncate(v) ==
  LET ws == IF v.ws < maxLength THEN v.ws ELSE maxLength
  IN  [ws |-> ws, len |-> IF Length(v) <= maxLength THEN v.len ELSE maxLength - ws]

\* as textareaInput, without the maxLength attribute
textareaUnlimited(old, v) == {v}

\* <textarea maxLength={2000} onChange=...>: the values newComment may take
\* when the user offers v.  An edit that would make the value longer than
\* maxLength is refused, or cut to its first maxLength characters.
textareaInput(old, v) ==
  IF Length(v) <= maxLength THEN {v} ELSE {old, truncate(v)}

\* newComment.trim()
trimContent(v) == [ws |-> 0, len |-> v.len]

\* The CommentsSection of the owner ("show" or "episode") is rendered.
FormShown(owner) ==
  /\ Phase = "Ready"
  /\ owner = "episode" => selectedEpisode # 0

formOf(owner) == IF owner = "show" THEN showForm ELSE episodeForm

SetForm(owner, f) ==
  IF owner = "show"
  THEN showForm' = f /\ UNCHANGED episodeForm
  ELSE episodeForm' = f /\ UNCHANGED showForm

\* onChange={(e) => setNewComment(e.target.value)}
TypeComment(owner, v) ==
  /\ FormShown(owner)
  /\ \E x \in textareaInput(formOf(owner).newComment, v) :
       /\ x # formOf(owner).newComment
          \/ (Length(v) > maxLength /\ owner \notin overLengthOffered)
       /\ SetForm(owner, [formOf(owner) EXCEPT !.newComment = x])
  /\ overLengthOffered' =
       IF Length(v) > maxLength THEN overLengthOffered \cup {owner}
       ELSE overLengthOffered
  /\ UNCHANGED <<raced, episodeCommentsFrom, openedFromClosed, failed,
                 removedDuringAdd>>
  /\ UNCHANGED <<episodeFormId, showHasGenerated, episodeHasGenerated>>
  /\ UNCHANGED <<appVars, searchVars, pageVars, modalVars, loadVars, netVars, srvVars>>

\* as canSubmit, with the content tested before trimming
canSubmitUntrimmed(form) == Length(form.newComment) # 0 /\ ~form.isSubmitting

\* as canSubmit, without the isSubmitting test
canSubmitWhileSubmitting(form) == trimContent(form.newComment).len # 0

\* handleSubmit passes its guard (line 25): the content is not empty after
\* trimming and no submission of this form is in flight.
canSubmit(form) == trimContent(form.newComment).len # 0 /\ ~form.isSubmitting

\* handleSubmit -> handleAddShowComment / handleAddEpisodeComment up to the
\* await of createComment.  The request carries the scope its closure captured.
Submit(owner) ==
  /\ FormShown(owner)
  /\ canSubmit(formOf(owner))
  /\ issued["add"] < MaxAdds
  /\ SetForm(owner, [formOf(owner) EXCEPT !.isSubmitting = TRUE])
  /\ addReqs' = addReqs \cup
       {[id |-> issued["add"] + 1, mount |-> activations, owner |-> owner,
         form |-> IF owner = "show" THEN 0 ELSE episodeFormId,
         show_id |-> showId,
         episode_id |-> IF owner = "show" THEN 0 ELSE selectedEpisode,
         content |-> trimContent(formOf(owner).newComment),
         captured |-> IF owner = "show" THEN showComments ELSE episodeComments]}
  /\ issued' = [issued EXCEPT !["add"] = @ + 1]
  /\ UNCHANGED <<episodeFormId, showHasGenerated, episodeHasGenerated>>
  /\ UNCHANGED <<toggleReqs, episodeLoadReqs, deleteReqs, insightReqs>>
  /\ UNCHANGED <<appVars, searchVars, pageVars, modalVars, loadVars, histVars, srvVars>>

\* createComment at the service: the comment with its assigned id
createdComment(r) ==
  [id |-> Len(InitialComments) + r.id, show_id |-> r.show_id,
   episode_id |-> r.episode_id, content |-> r.content]

\* as prepend, with the comment put last: [...prev, comment]
appendLast(comment, prev) == prev \o <<comment>>

\* setShowComments((prev) => [comment, ...prev])
prepend(comment, prev) == <<comment>> \o prev

\* as writesList, with setShowComments called by both add handlers
writesShowList(owner, list) == list = "show"

\* The list a handler of the owner's CommentsSection writes: setShowComments in
\* handleAddShowComment / handleDeleteShowComment, setEpisodeComments in
\* handleAddEpisodeComment / handleDeleteEpisodeComment.
writesList(owner, list) == owner = list

\* as addUpdate, built from the list the closure captured:
\* setShowComments([comment, ...showComments])
addUpdateFromCapture(comment, prev, captured) == prepend(comment, captured)

\* the functional update of handleAddShowComment / handleAddEpisodeComment:
\* it is applied to the list held when the response arrives
addUpdate(comment, prev, captured) == prepend(comment, prev)

\* The CommentsSection instance that issued the request is still mounted.
FormMounted(r) ==
  /\ Mounted(r)
  /\ r.owner = "episode" => (selectedEpisode # 0 /\ episodeFormId = r.form)

\* as formAfterSubmit, with setNewComment('') moved into the finally block
formAfterSubmitClearing(form, ok) ==
  [newComment |-> NoDraft, isSubmitting |-> FALSE]

\* handleSubmit after its await: setNewComment('') on success, then finally.
formAfterSubmit(form, ok) ==
  [newComment |-> IF ok THEN NoDraft ELSE form.newComment, isSubmitting |-> FALSE]

\* The settlement of createComment: the rest of handleAddShowComment /
\* handleAddEpisodeComment, then the rest of handleSubmit.
AddSettle(r, ok) ==
  /\ r \in addReqs
  /\ addReqs' = addReqs \ {r}
  /\ srvComments' = IF ok THEN prepend(createdComment(r), srvComments) ELSE srvComments
  /\ showComments' =
       IF Mounted(r) /\ ok /\ writesList(r.owner, "show")
       THEN addUpdate(createdComment(r), showComments, r.captured)
       ELSE showComments
  /\ episodeComments' =
       IF Mounted(r) /\ ok /\ writesList(r.owner, "episode")
       THEN addUpdate(createdComment(r), episodeComments, r.captured)
       ELSE episodeComments
  /\ IF FormMounted(r)
     THEN SetForm(r.owner, formAfterSubmit(formOf(r.owner), ok))
     ELSE UNCHANGED <<showForm, episodeForm>>
  /\ UNCHANGED <<showData, watchedEpisodes, showInsight, selectedSeason,
                 isLoading, error, isLoadingInsight>>
  /\ UNCHANGED <<selectedEpisode, episodeInsight, isLoadingEpisodeComments,
                 isLoadingEpisodeInsight>>
  /\ UNCHANGED <<episodeFormId, showHasGenerated, episodeHasGenerated>>
  /\ UNCHANGED <<toggleReqs, episodeLoadReqs, deleteReqs, insightReqs, issued>>
  /\ UNCHANGED <<srvWatched, srvClock>>
  /\ UNCHANGED <<appVars, searchVars, loadVars>>
  /\ failed' = IF Mounted(r) /\ ~ok THEN failed \cup {"add"} ELSE failed
  /\ UNCHANGED <<raced, episodeCommentsFrom, openedFromClosed, overLengthOffered,
                 removedDuringAdd>>

\* as removeById, with the test of the filter inverted: c.id === commentId
keepById(prev, commentId) ==
  LET Same(c) == c.id = commentId
  IN  SelectSeq(prev, Same)

\* prev.filter((c) => c.id !== commentId)
RECURSIVE removeById(_, _)
removeById(prev, commentId) ==
  IF prev = <<>> THEN <<>>
  ELSE IF Head(prev).id # commentId
       THEN <<Head(prev)>> \o removeById(Tail(prev), commentId)
       ELSE removeById(Tail(prev), commentId)

\* as afterDelete, with the entry removed whether or not the request succeeded
afterDeleteOptimistic(prev, commentId, ok) == removeById(prev, commentId)

\* as afterDelete, with the list emptied when the request fails
afterDeleteClearing(prev, commentId, ok) ==
  IF ok THEN removeById(prev, commentId) ELSE <<>>

\* handleDeleteShowComment / handleDeleteEpisodeComment after the await: the
\* filter when deleteComment resolved; when it rejected the line is not reached
afterDelete(prev, commentId, ok) ==
  IF ok THEN removeById(prev, commentId) ELSE prev

\* The comments rendered with a delete button by the owner's CommentsSection
\* (isLoading is always false for the show's, isLoadingEpisodeComments for
\* the modal's)
commentsShown(owner) ==
  IF ~FormShown(owner) THEN <<>>
  ELSE IF owner = "show" THEN showComments
  ELSE IF isLoadingEpisodeComments THEN <<>>
  ELSE episodeComments

\* onDeleteComment(comment.id) -> handleDeleteShowComment /
\* handleDeleteEpisodeComment up to the await of deleteComment
Delete(owner, commentId) ==
  /\ \E c \in Range(commentsShown(owner)) : c.id = commentId
  /\ issued["delete"] < MaxDeletes
  /\ deleteReqs' = deleteReqs \cup
       {[id |-> issued["delete"] + 1, mount |-> activations, owner |-> owner,
         commentId |-> commentId]}
  /\ issued' = [issued EXCEPT !["delete"] = @ + 1]
  /\ removedDuringAdd' =
       IF \E a \in addReqs : a.owner = owner /\ FormMounted(a)
       THEN removedDuringAdd \cup {owner} ELSE removedDuringAdd
  /\ UNCHANGED <<raced, episodeCommentsFrom, openedFromClosed, overLengthOffered,
                 failed>>
  /\ UNCHANGED <<toggleReqs, episodeLoadReqs, addReqs, insightReqs>>
  /\ UNCHANGED <<appVars, searchVars, pageVars, modalVars, loadVars, childVars,
                 srvVars>>

\* The settlement of deleteComment: the filter on success, nothing on failure.
DeleteSettle(r, ok) ==
  /\ r \in deleteReqs
  /\ deleteReqs' = deleteReqs \ {r}
  /\ srvComments' = IF ok THEN removeById(srvComments, r.commentId) ELSE srvComments
  /\ showComments' =
       IF Mounted(r) /\ writesList(r.owner, "show")
       THEN afterDelete(showComments, r.commentId, ok) ELSE showComments
  /\ episodeComments' =
       IF Mounted(r) /\ writesList(r.owner, "episode")
       THEN afterDelete(episodeComments, r.commentId, ok) ELSE episodeComments
  /\ UNCHANGED <<showData, watchedEpisodes, showInsight, selectedSeason,
                 isLoading, error, isLoadingInsight>>
  /\ UNCHANGED <<selectedEpisode, episodeInsight, isLoadingEpisodeComments,
                 isLoadingEpisodeInsight>>
  /\ UNCHANGED <<toggleReqs, episodeLoadReqs, addReqs, insightReqs, issued>>
  /\ UNCHANGED <<srvWatched, srvClock>>
  /\ UNCHANGED <<appVars, searchVars, loadVars, childVars>>
  /\ failed' = IF Mounted(r) /\ ~ok THEN failed \cup {"delete"} ELSE failed
  /\ UNCHANGED <<raced, episodeCommentsFrom, openedFromClosed, overLengthOffered,
                 removedDuringAdd>>

Owners == {"show", "episode"}
EditComment == \E o \in Owners, v \in Drafts : TypeComment(o, v)
SubmitComment == \E o \in Owners : Submit(o)
AddSucceeds == \E r \in addReqs : AddSettle(r, fetchApi("ok"))
AddFails ==
  \E r \in addReqs, o \in FailureOutcomes : AddSettle(r, fetchApi(o))
DeleteComment ==
  \E o \in Owners, id \in 1..(Len(InitialComments) + MaxAdds) : Delete(o, id)
DeleteSucceeds == \E r \in deleteReqs : DeleteSettle(r, fetchApi("ok"))
DeleteFails ==
  \E r \in deleteReqs, o \in FailureOutcomes : DeleteSettle(r, fetchApi(o))

Activate == \E id \in {1, 2} : SelectShow(id)
ChangeSeason == \E n \in {1, 2} : SelectSeason(n)

(* ============================== claims ================================ *)

\* The settlement of a search request that was not the last one issued.
StaleSearchSettles ==
  /\ resultsSeq' # resultsSeq
  /\ resultsSeq' # 0
  /\ resultsSeq' < searchSeq

\* C1: the response (success or failure) to a query issued before the most
\* recently issued one is discarded: its settlement changes neither the
\* displayed results nor the displayed error.
C1_StaleSearchResponseDiscarded ==
  [][StaleSearchSettles => UNCHANGED <<results, searchError>>]_vars

\* C2: while the modal is open on an episode after having been closed, the
\* comment list it holds was not produced by a getEpisodeComments request
\* for another episode, and the insight it holds is not one generated for
\* another episode.
C2_NoStateOfEarlierEpisode ==
  (selectedEpisode # 0 /\ openedFromClosed) =>
    /\ episodeCommentsFrom \in {0, selectedEpisode}
    /\ episodeInsight = None \/ episodeInsight[1].episode_id = selectedEpisode

\* C3: a toggle flips the local membership of its episode in the very step
\* that issues its request, which is then in flight; and when that request
\* fails, the membership of the episode is what it was in the watched set
\* before the call and no other episode's membership is touched.
C3_ToggleOptimisticThenReverted ==
  [][ /\ \A ep \in {1, 2, 3} : Toggle(ep) =>
           /\ (ep \in watchedEpisodes') # (ep \in watchedEpisodes)
           /\ watchedEpisodes' \ {ep} = watchedEpisodes \ {ep}
           /\ \E r \in toggleReqs' \ toggleReqs :
                r.ep = ep /\ r.before = watchedEpisodes
      /\ \A r \in toggleReqs : (ToggleSettle(r, FALSE) /\ Mounted(r)) =>
           /\ (r.ep \in watchedEpisodes') = (r.ep \in r.before)
           /\ watchedEpisodes' \ {r.ep} = watchedEpisodes \ {r.ep}
    ]_vars

\* C3 witness: the one toggle issued so far has failed (the service holds
\* what it held at the start) and the watched set is back to what was loaded.
C3_Witness ==
  /\ Phase = "Ready"
  /\ activations = 1
  /\ issued["toggle"] = 1
  /\ toggleReqs = {}
  /\ srvWatched = InitialWatched
  /\ watchedEpisodes = InitialWatched[showId]
  /\ watchedEpisodes # {}

C5_AtMostOneGeneration ==
  /\ Cardinality({ r \in insightReqs : r.session = 0 }) <= 1
  /\ Cardinality({ r \in insightReqs : r.session # 0 }) <= 1
  /\ (\E r \in insightReqs : r.session = 0) =>
        ~canGenerate(showInsight, isLoadingInsight, showHasGenerated)
  /\ (\E r \in insightReqs : r.session # 0) =>
        ~canGenerate(episodeInsight, isLoadingEpisodeInsight, episodeHasGenerated)

\* C5 witness: a generation of each panel is in flight, the modal's panel
\* being one that has not issued it (the modal was closed and reopened).
C5_Witness ==
  /\ \E r \in insightReqs : r.session = 0
  /\ \E r \in insightReqs : r.session # 0 /\ r.session # episodeFormId
  /\ selectedEpisode # 0

\* C6: when the three loads have resolved and the show has no season, the
\* page is Ready with no error, no season selected and no episode listed.
C6_ZeroSeasonsReady ==
  (/\ view = "show"
   /\ \A k \in LoadKinds : loadStatus[k] = "ok"
   /\ getShowDetails(showId) = <<>>) =>
    /\ Phase = "Ready"
    /\ error = Null
    /\ showData = Some(<<>>)
    /\ selectedSeason = 0
    /\ currentEpisodes = <<>>

\* C6 witness: the show without seasons has been loaded.
C6_Witness ==
  /\ view = "show"
  /\ showId = 2
  /\ \A k \in LoadKinds : loadStatus[k] = "ok"

\* C7: on the detail page the three loads have all been issued, and the page
\* leaves Loading only when all three have resolved or one has failed.
C7_LoadingUntilAllSettle ==
  view = "show" =>
    /\ \A k \in LoadKinds : loadStatus[k] # "idle"
    /\ ~isLoading =>
         \/ \A k \in LoadKinds : loadStatus[k] = "ok"
         \/ \E k \in LoadKinds : loadStatus[k] = "fail"

\* C7 witness: two loads have resolved, the third is pending, and the page
\* is still Loading with nothing stored.
C7_Witness ==
  /\ Phase = "Loading"
  /\ Cardinality({ k \in LoadKinds : loadStatus[k] = "ok" }) = 2
  /\ Cardinality({ k \in LoadKinds : loadStatus[k] = "pending" }) = 1
  /\ showData = None

\* C8: once one of the three loads has failed the page is in the error
\* state and holds no show data, no watched set, no comments and no season.
C8_FailureStoresNothing ==
  (view = "show" /\ \E k \in LoadKinds : loadStatus[k] = "fail") =>
    /\ Phase = "Failed"
    /\ error = LoadFailedMsg
    /\ showData = None
    /\ watchedEpisodes = {}
    /\ showComments = <<>>
    /\ selectedSeason = 0

\* C8 witness: the watched set and the comments have resolved (both not
\* empty at the service) and the show details have failed.
C8_Witness ==
  /\ view = "show"
  /\ showId = 1
  /\ loadStatus["details"] = "fail"
  /\ loadStatus["watched"] = "ok"
  /\ loadStatus["comments"] = "ok"
  /\ loadedWatched # {}
  /\ loadedComments # <<>>

C10_SettledMatchesService ==
  (Phase = "Ready" /\ toggleReqs = {}) => watchedEpisodes = srvWatched[showId]

\* C10 as amended: the same, provided no toggle was issued on an episode
\* while another toggle of that episode was in flight and no toggle was in
\* flight when the watched set was loaded.
C10_SettledMatchesServiceUnlessRaced ==
  (Phase = "Ready" /\ toggleReqs = {} /\ ~raced) =>
    watchedEpisodes = srvWatched[showId]

\* C10 witness: two toggles without overlap have settled, at least one of
\* them with success.
C10_Witness ==
  /\ Phase = "Ready"
  /\ toggleReqs = {}
  /\ ~raced
  /\ issued["toggle"] = 2
  /\ srvWatched # InitialWatched

\* C11: while the modal is closed the page holds no episode comment and no
\* episode insight, whatever settles after the close.
C11_ClosedHoldsNothing ==
  (view = "show" /\ selectedEpisode = 0) =>
    episodeComments = <<>> /\ episodeInsight = None

\* The debounced input has just become empty or white space only.
InputBecomesEmpty ==
  debouncedQuery' # debouncedQuery /\ trim(debouncedQuery') = <<>>

\* C12: when the debounced input becomes empty after trimming, no search
\* request is issued and the displayed results are cleared.
C12_EmptyInputClearsResults ==
  [][InputBecomesEmpty => (searchReqs' = searchReqs /\ results' = <<>>)]_vars

\* C13: the failure of a search request sets the error message and leaves
\* no result displayed.
C13_SearchFailureClearsResults ==
  [][\A r \in searchReqs : SearchSettle(r, FALSE) =>
        (searchError' = SearchFailedMsg /\ results' = <<>>)]_vars

\* C13 witness: the second search request was the one that settled last,
\* it failed, and the error is displayed with no result.
C13_Witness ==
  /\ view = "search"
  /\ searchSeq = 2
  /\ resultsSeq = 2
  /\ searchReqs = {}
  /\ searchError = SearchFailedMsg
  /\ results = <<>>

\* The ids of the comments of a list.
idsOf(list) == { c.id : c \in Range(list) }

\* C14: the step that issues a createComment request and the step in which
\* it fails change no comment list; as long as the request is in flight no
\* list holds its comment; and the step in which it succeeds puts the
\* returned comment first in the owner's list, the previous elements
\* following in their order.
C14_AddNotOptimistic ==
  [][ /\ \A o \in Owners : Submit(o) => UNCHANGED <<showComments, episodeComments>>
      /\ \A r \in addReqs :
           /\ AddSettle(r, FALSE) => UNCHANGED <<showComments, episodeComments>>
           /\ r \in addReqs' =>
                createdComment(r).id \notin idsOf(showComments') \cup idsOf(episodeComments')
           /\ (AddSettle(r, TRUE) /\ Mounted(r)) =>
                LET old == IF r.owner = "show" THEN showComments ELSE episodeComments
                    new == IF r.owner = "show" THEN showComments' ELSE episodeComments'
                IN  /\ Len(new) = Len(old) + 1
                    /\ new[1] = createdComment(r)
                    /\ \A i \in 1..Len(old) : new[i + 1] = old[i]
    ]_vars

\* C14 witness: a comment added to a list that was not empty is first in
\* the show's list, and one is first in the modal's list.
C14_Witness ==
  /\ Len(showComments) > 1
  /\ showComments[1].id > Len(InitialComments)
  /\ Len(episodeComments) > 1
  /\ episodeComments[1].id > Len(InitialComments)

\* C15: of each CommentsSection instance (the page's, and each mount of the
\* modal's) at most one createComment request is in flight, and while one
\* of the mounted instance is in flight its handleSubmit issues none.
C15_AtMostOneAdd ==
  /\ \A r1, r2 \in addReqs :
       (r1.mount = r2.mount /\ r1.owner = r2.owner /\ r1.form = r2.form) => r1 = r2
  /\ \A r \in addReqs : FormMounted(r) => ~canSubmit(formOf(r.owner))

\* C15 witness: an add of the show's form and one of the modal's form are in
\* flight, and each form holds a draft that is not empty.
C15_Witness ==
  /\ \E r \in addReqs : r.owner = "show" /\ FormMounted(r)
  /\ \E r \in addReqs : r.owner = "episode" /\ FormMounted(r)
  /\ trimContent(showForm.newComment).len # 0
  /\ trimContent(episodeForm.newComment).len # 0

\* C16: the failure of a generateInsight request leaves the show's and the
\* modal's insight as they were and clears the loading flag of its panel.
C16_GenerationFailureKeepsInsight ==
  [][\A r \in insightReqs : InsightSettle(r, FALSE) =>
        /\ UNCHANGED <<showInsight, episodeInsight>>
        /\ IF r.session = 0 THEN ~isLoadingInsight' ELSE ~isLoadingEpisodeInsight'
    ]_vars

\* C16 witness: on the first activation, with no episode opened, the show's
\* first generation has succeeded and its second has failed, and the first
\* insight is still held.
C16_Witness ==
  /\ Phase = "Ready"
  /\ activations = 1
  /\ issued["open"] = 0
  /\ issued["generate"] = 2
  /\ insightReqs = {}
  /\ srvClock = 1
  /\ showInsight # None
  /\ ~isLoadingInsight

\* C17: the step that opens the modal on an episode leaves in the modal's
\* state no comment and no insight of another episode, no generation in
\* flight and no add in flight.
C17_OpenYieldsFreshSession ==
  [][\A ep \in {1, 2, 3} : OpenEpisode(ep) =>
        /\ \A c \in Range(episodeComments') : c.episode_id = ep
        /\ episodeInsight' = None \/ episodeInsight'[1].episode_id = ep
        /\ ~isLoadingEpisodeInsight'
        /\ ~episodeForm'.isSubmitting
    ]_vars

\* C18: the settlement of a toggle, success or failure, changes the local
\* membership of no episode but its own, whatever else is in flight.
C18_TogglesIndependent ==
  [][\A r \in toggleReqs, ok \in BOOLEAN : ToggleSettle(r, ok) =>
        watchedEpisodes' \ {r.ep} = watchedEpisodes \ {r.ep}]_vars

\* C18 witness: of two toggles on different episodes that were in flight
\* together, the second has settled and the first is still in flight, the
\* membership of its episode being the optimistic one.
C18_Witness ==
  /\ Phase = "Ready"
  /\ issued["toggle"] = 2
  /\ \E r \in toggleReqs :
       /\ toggleReqs = {r}
       /\ r.id = 1
       /\ Mounted(r)
       /\ ~r.overlapped
       /\ (r.ep \in watchedEpisodes) # r.isCurrentlyWatched

\* The request is the last one in flight on its episode and has been in
\* flight together with another toggle of that episode.
LastOfOverlapping(r) ==
  /\ r.overlapped
  /\ Mounted(r)
  /\ \A q \in toggleReqs' : q.ep # r.ep

\* A toggle issued while another toggle of its episode is in flight is
\* accepted: it flips the local membership and issues its own request.
SecondToggleAccepted ==
  \A ep \in {1, 2, 3} : (Toggle(ep) /\ \E q \in toggleReqs : q.ep = ep) =>
     /\ (ep \in watchedEpisodes') # (ep \in watchedEpisodes)
     /\ Cardinality({ q \in toggleReqs' : q.ep = ep }) =
          Cardinality({ q \in toggleReqs : q.ep = ep }) + 1

\* C19 as claimed: a second toggle of an episode is accepted while the
\* first is in flight, and when the last of them settles the membership of
\* the episode is the one its response determines: the target of the
\* toggle when it succeeded, the membership it read when it failed.
C19_LastResponseWins ==
  [][ /\ SecondToggleAccepted
      /\ \A r \in toggleReqs : LastOfOverlapping(r) =>
           /\ (ToggleSettle(r, TRUE) /\ ~ToggleSettle(r, FALSE)) =>
                (r.ep \in watchedEpisodes') = ~r.isCurrentlyWatched
           /\ (ToggleSettle(r, FALSE) /\ ~ToggleSettle(r, TRUE)) =>
                (r.ep \in watchedEpisodes') = r.isCurrentlyWatched
    ]_vars

\* C19 as amended: the same, except that a last response that is a success
\* leaves the membership of the episode as it was when it arrived.
C19_LastFailureWins ==
  [][ /\ SecondToggleAccepted
      /\ \A r \in toggleReqs : LastOfOverlapping(r) =>
           /\ (ToggleSettle(r, TRUE) /\ ~ToggleSettle(r, FALSE)) =>
                (r.ep \in watchedEpisodes') = (r.ep \in watchedEpisodes)
           /\ (ToggleSettle(r, FALSE) /\ ~ToggleSettle(r, TRUE)) =>
                (r.ep \in watchedEpisodes') = r.isCurrentlyWatched
    ]_vars

\* C19 witness: on the first activation two toggles of one episode were in
\* flight together and have settled, and the local watched set is not the
\* one the service holds.
C19_Witness ==
  /\ Phase = "Ready"
  /\ activations = 1
  /\ raced
  /\ issued["toggle"] = 2
  /\ toggleReqs = {}
  /\ watchedEpisodes # srvWatched[showId]

\* C20: the step in which the page becomes Ready with a season list that is
\* not empty selects the season number of the first element of the list,
\* and the episodes listed are those of that element.
C20_FirstSeasonSelected ==
  [][(Phase # "Ready" /\ Phase' = "Ready" /\ getShowDetails(showId') # <<>>) =>
        /\ showData' = Some(getShowDetails(showId'))
        /\ selectedSeason' = getShowDetails(showId')[1].season
        /\ currentEpisodes' = getShowDetails(showId')[1].episodes
    ]_vars

\* C20 witness: the show with two seasons is Ready, and the selected season
\* is the first of its list, which is not the one with the lowest number.
C20_Witness ==
  /\ Phase = "Ready"
  /\ Len(showData[1]) = 2
  /\ selectedSeason = showData[1][1].season
  /\ selectedSeason > showData[1][2].season
  /\ currentEpisodes = showData[1][1].episodes

\* C21: changing the active season of a Ready detail view issues no network
\* request and leaves the show data, the watched set, both comment lists, both
\* insights and the modal state unchanged; only the selected season changes.
C21_SeasonChangeIsLocal ==
  [][(Phase = "Ready" /\ Phase' = "Ready" /\ selectedSeason' # selectedSeason)
       => /\ UNCHANGED <<netVars, loadStatus, searchReqs>>
          /\ UNCHANGED <<showData, watchedEpisodes, showComments, showInsight>>
          /\ UNCHANGED <<episodeComments, episodeInsight>>
          /\ UNCHANGED <<selectedEpisode, isLoadingEpisodeComments,
                         isLoadingEpisodeInsight, isLoadingInsight>>
          /\ UNCHANGED <<isLoading, error, childVars, srvVars>>]_vars

\* The season was changed from the default one (2) to season 1 of show 1
\* while the modal was open on episode 1 of season 2, whose comments are
\* still held, with a generation in flight.
C21_Witness ==
  /\ Phase = "Ready"
  /\ showId = 1
  /\ selectedSeason = 1
  /\ selectedEpisode = 1
  /\ episodeComments # <<>>
  /\ insightReqs # {}

\* The toggle requests a step adds to those in flight.
NewToggleReqs == { r \in toggleReqs' : r.id \notin { q.id : q \in toggleReqs } }

\* C22: a call to toggle(E) issues exactly one request, markEpisodeWatched
\* when E was not in the local watched set at the call and unmarkEpisodeWatched
\* when it was, and no other request; the settlement of a successful toggle
\* does not modify the local watched set.
C22_OneRequestOfTargetKind ==
  [][/\ \A ep \in {1, 2, 3} :
          Toggle(ep) =>
            /\ Cardinality(NewToggleReqs) = 1
            /\ Cardinality(toggleReqs') = Cardinality(toggleReqs) + 1
            /\ \A r \in NewToggleReqs :
                 /\ r.ep = ep
                 /\ r.show = showId
                 /\ r.kind = IF ep \in watchedEpisodes
                             THEN "unmarkEpisodeWatched"
                             ELSE "markEpisodeWatched"
            /\ UNCHANGED <<episodeLoadReqs, addReqs, deleteReqs, insightReqs,
                           searchReqs, loadStatus>>
     /\ \A r \in toggleReqs :
          ToggleSettle(r, TRUE) => watchedEpisodes' = watchedEpisodes]_vars

\* Episode 1 (unwatched) and episode 2 (watched) of show 1 were toggled, both
\* requests succeeded: the service holds the two targets and the local set,
\* written only by the optimistic updates, agrees.
C22_Witness ==
  /\ Phase = "Ready"
  /\ showId = 1
  /\ activations = 1
  /\ issued["toggle"] = 2
  /\ toggleReqs = {}
  /\ srvWatched[1] = {1}
  /\ watchedEpisodes = {1}

\* C23: an add whose content is empty after trimming is rejected before any
\* network call: while a form's content trims to nothing no step issues a
\* createComment request for it, so no request in flight, no comment at the
\* service and no entry of a list has an empty trimmed content.
C23_EmptyContentRejectedLocally ==
  /\ [][\A owner \in {"show", "episode"} :
          trimContent(formOf(owner).newComment).len = 0
            => { r \in addReqs' \ addReqs : r.owner = owner } = {}]_vars
  /\ [](/\ \A r \in addReqs : r.content.len # 0
        /\ \A i \in 1..Len(srvComments) : srvComments[i].content.len # 0
        /\ \A i \in 1..Len(showComments) : showComments[i].content.len # 0
        /\ \A i \in 1..Len(episodeComments) : episodeComments[i].content.len # 0)

\* Both forms hold a content of whitespace only, no submission was ever
\* issued and the lists are the loaded ones.
C23_Witness ==
  /\ Phase = "Ready"
  /\ selectedEpisode = 1
  /\ showForm.newComment = [ws |-> 1, len |-> 0]
  /\ episodeForm.newComment = [ws |-> 1, len |-> 0]
  /\ issued["add"] = 0
  /\ showComments = commentsOf(InitialComments, 1, 0)
  /\ episodeComments = commentsOf(InitialComments, 1, 1)

\* The list without its entries of the given id, the others in their order.
Without(list, commentId) ==
  LET Other(c) == c.id # commentId
  IN  SelectSeq(list, Other)

\* C24: when deleteComment succeeds, exactly the entries with that comment id
\* are removed from the list of the session that issued it; every other
\* comment of that list remains, in the same order, and the other session's
\* list is unchanged.
C24_DeleteRemovesExactlyThatId ==
  [][\A r \in deleteReqs :
       (DeleteSettle(r, TRUE) /\ Mounted(r)) =>
         IF r.owner = "show"
         THEN /\ showComments' = Without(showComments, r.commentId)
              /\ episodeComments' = episodeComments
         ELSE /\ episodeComments' = Without(episodeComments, r.commentId)
              /\ showComments' = showComments]_vars

\* The show's list held the added comment 3 ahead of comment 1; the delete of
\* comment 1 succeeded, and comment 3 alone is left, at the service too.
C24_Witness ==
  /\ Phase = "Ready"
  /\ issued["delete"] = 1
  /\ deleteReqs = {}
  /\ addReqs = {}
  /\ Len(showComments) = 1
  /\ showComments[1].id = 3
  /\ commentsOf(srvComments, 1, 0) = showComments

\* C25: the step in which a createComment or a deleteComment request fails
\* leaves both comment lists exactly as they were, and the service's comments
\* too.
C25_CommentFailureKeepsList ==
  [][/\ \A r \in addReqs :
          AddSettle(r, FALSE) =>
            UNCHANGED <<showComments, episodeComments, srvComments>>
     /\ \A r \in deleteReqs :
          DeleteSettle(r, FALSE) =>
            UNCHANGED <<showComments, episodeComments, srvComments>>]_vars

\* An add and a delete have failed on the one activation of show 1; nothing
\* is in flight, and the show's list still is the loaded one, as the
\* service's.
C25_Witness ==
  /\ Phase = "Ready"
  /\ showId = 1
  /\ activations = 1
  /\ {"add", "delete"} \subseteq failed
  /\ addReqs = {}
  /\ deleteReqs = {}
  /\ srvComments = InitialComments
  /\ showComments = commentsOf(InitialComments, 1, 0)

\* A createComment request of the owner's mounted form is in flight.
AddInFlight(owner) == \E a \in addReqs : a.owner = owner /\ FormMounted(a)

\* No createComment or deleteComment request of the owner is in flight.
CommentsSettled(owner) ==
  /\ \A a \in addReqs : a.owner # owner
  /\ \A d \in deleteReqs : d.owner # owner

\* C26: a remove may be issued while an add of the same session is in flight
\* (every comment shown can be deleted then), and neither update is lost
\* whichever settles first: once the session's adds and removes have settled
\* its list is the service's list of its scope, the added comments at the
\* front and the removed one absent.
C26_AddAndRemoveBothApply ==
  /\ \A owner \in Owners :
       (AddInFlight(owner) /\ issued["delete"] < MaxDeletes) =>
         \A c \in Range(commentsShown(owner)) : ENABLED Delete(owner, c.id)
  /\ (Phase = "Ready" /\ CommentsSettled("show"))
       => showComments = commentsOf(srvComments, showId, 0)
  /\ (Phase = "Ready" /\ CommentsSettled("episode") /\ issued["open"] = 1
        /\ selectedEpisode # 0 /\ episodeLoadReqs = {}
        /\ episodeCommentsFrom = selectedEpisode)
       => episodeComments = commentsOf(srvComments, showId, selectedEpisode)

\* Comment 1 of show 1 was removed while the add of comment 3 was in flight,
\* both succeeded: the list holds comment 3 alone.
C26_Witness ==
  /\ Phase = "Ready"
  /\ showId = 1
  /\ "show" \in removedDuringAdd
  /\ failed = {}
  /\ CommentsSettled("show")
  /\ issued["add"] = 1
  /\ issued["delete"] = 1
  /\ Len(showComments) = 1
  /\ showComments[1].id = 3

\* C27: once a previous generation of a panel has settled (none of its
\* requests is in flight and its loading flag is clear) generate is enabled
\* again; a generation that succeeds replaces the stored insight of its scope
\* by the new one, whatever was stored.
C27_GenerateEnabledOnceSettled ==
  /\ []((Phase = "Ready" /\ showHasGenerated /\ ~isLoadingInsight
           /\ \A r \in insightReqs : r.session # 0)
          => canGenerate(showInsight, isLoadingInsight, showHasGenerated))
  /\ []((Phase = "Ready" /\ selectedEpisode # 0 /\ episodeHasGenerated
           /\ ~isLoadingEpisodeInsight
           /\ \A r \in insightReqs : r.session # episodeFormId)
          => canGenerate(episodeInsight, isLoadingEpisodeInsight,
                         episodeHasGenerated))
  /\ [][\A r \in insightReqs :
          (InsightSettle(r, TRUE) /\ ~InsightSettle(r, FALSE)) =>
            LET new == Some(generateInsight(showId, r.episode_id, srvClock))
            IN  IF r.session = 0 THEN showInsight' = new
                ELSE episodeInsight' = new]_vars

\* C28: every open of the modal on an episode issues exactly one
\* getEpisodeComments request, for that episode, in the step of the opening,
\* whether the modal was closed or open and whatever was loaded before; so
\* closing and reopening the same episode issues the request again.
C28_EveryOpenLoads ==
  [][\A ep \in {1, 2, 3} :
       OpenEpisode(ep) =>
         /\ Cardinality(episodeLoadReqs' \ episodeLoadReqs) = 1
         /\ episodeLoadReqs \subseteq episodeLoadReqs'
         /\ \A r \in episodeLoadReqs' \ episodeLoadReqs : r.ep = ep
         /\ UNCHANGED <<toggleReqs, addReqs, deleteReqs, insightReqs,
                        searchReqs, loadStatus>>]_vars

\* Episode 1 was opened, closed and opened again from the closed modal: the
\* requests of both opens are in flight, each for episode 1.
C28_Witness ==
  /\ selectedEpisode = 1
  /\ openedFromClosed
  /\ issued["open"] = 2
  /\ Cardinality(episodeLoadReqs) = 2
  /\ \A r \in episodeLoadReqs : r.ep = 1

\* The step is the failure of a toggle, add, delete or generation request.
MutationFails ==
  \/ \E r \in toggleReqs : ToggleSettle(r, FALSE)
  \/ \E r \in addReqs : AddSettle(r, FALSE)
  \/ \E r \in deleteReqs : DeleteSettle(r, FALSE)
  \/ \E r \in insightReqs : InsightSettle(r, FALSE)

\* C29: the failure of a toggle, add, delete or generation request never
\* moves the detail view out of Ready into the whole-view error state, never
\* closes the modal, and clears neither the show data, nor the watched
\* membership of an episode other than the toggled one, nor a comment list.
C29_MutationFailureStaysLocal ==
  [][MutationFails =>
       /\ Phase = "Ready" => Phase' = "Ready"
       /\ UNCHANGED <<isLoading, error, view, showId>>
       /\ UNCHANGED <<selectedEpisode, showData, selectedSeason>>
       /\ UNCHANGED <<showComments, episodeComments>>
       /\ \A r \in toggleReqs :
            ToggleSettle(r, FALSE) =>
              \A ep \in {1, 2, 3} \ {r.ep} :
                (ep \in watchedEpisodes') = (ep \in watchedEpisodes)
       /\ (\A r \in toggleReqs : ~ToggleSettle(r, FALSE))
            => watchedEpisodes' = watchedEpisodes]_vars

\* Requests of two kinds of operation have failed while the modal was open on
\* episode 1: the view is Ready, the modal is still open on it, and the show
\* data, the watched set and both comment lists are the loaded ones.
C29_Witness ==
  /\ Phase = "Ready"
  /\ showId = 1
  /\ selectedEpisode = 1
  /\ Cardinality(failed) >= 2
  /\ toggleReqs = {} /\ addReqs = {} /\ deleteReqs = {} /\ insightReqs = {}
  /\ showData = Some(getShowDetails(1))
  /\ watchedEpisodes = InitialWatched[1]
  /\ showComments = commentsOf(InitialComments, 1, 0)
  /\ episodeComments = commentsOf(InitialComments, 1, 1)

\* The operations issued so far on detail pages.
OpsIssued ==
  issued["toggle"] + issued["open"] + issued["add"] + issued["delete"]
    + issued["generate"]

\* The requests in flight: searches, the loads of the activation, and the
\* requests of the detail page's operations.
InFlight ==
  Cardinality(searchReqs) + Cardinality({ k \in LoadKinds : loadStatus[k] = "pending" })
    + Cardinality(toggleReqs) + Cardinality(episodeLoadReqs) + Cardinality(addReqs)
    + Cardinality(deleteReqs) + Cardinality(insightReqs)

\* The step is the settlement, successful or not, of a request.
Settles ==
  \/ \E r \in searchReqs, ok \in BOOLEAN : SearchSettle(r, ok)
  \/ \E k \in LoadKinds, ok \in BOOLEAN : LoadSettle(k, ok)
  \/ \E r \in toggleReqs, ok \in BOOLEAN : ToggleSettle(r, ok)
  \/ \E r \in episodeLoadReqs, ok \in BOOLEAN : EpisodeLoadSettle(r, ok)
  \/ \E r \in addReqs, ok \in BOOLEAN : AddSettle(r, ok)
  \/ \E r \in deleteReqs, ok \in BOOLEAN : DeleteSettle(r, ok)
  \/ \E r \in insightReqs, ok \in BOOLEAN : InsightSettle(r, ok)

\* The step is a user operation of the detail page that issues its request.
IssuesOne ==
  \/ \E ep \in {1, 2, 3} : Toggle(ep) \/ OpenEpisode(ep)
  \/ \E o \in Owners : Submit(o)
  \/ \E o \in Owners, id \in 1..(Len(InitialComments) + MaxAdds) : Delete(o, id)
  \/ GenerateShowInsight
  \/ GenerateEpisodeInsight

\* C30: no request is issued again automatically.  The settlement of a
\* request, a failure included, issues none: it only takes its own request
\* out of flight.  A toggle, open, add, remove or generate issues exactly one
\* request, a debounced non-empty query one search, an activation the three
\* loads, and no other step issues any.
C30_NoAutomaticReissue ==
  [][/\ InFlight' = InFlight - 1 \/ ~Settles
     /\ InFlight' = InFlight + 1 \/ ~IssuesOne
     /\ DebounceElapsed =>
          /\ Cardinality(searchReqs') =
               Cardinality(searchReqs) + (IF trim(query) # <<>> THEN 1 ELSE 0)
          /\ UNCHANGED <<loadStatus, netVars>>
     /\ (\E id \in {1, 2} : SelectShow(id)) =>
          /\ \A k \in LoadKinds : loadStatus'[k] = "pending"
          /\ searchReqs' = {}
          /\ toggleReqs' \subseteq toggleReqs /\ addReqs' \subseteq addReqs
          /\ deleteReqs' \subseteq deleteReqs /\ insightReqs' \subseteq insightReqs
          /\ episodeLoadReqs' \subseteq episodeLoadReqs
     /\ \/ InFlight' <= InFlight
        \/ IssuesOne
        \/ DebounceElapsed
        \/ \E id \in {1, 2} : SelectShow(id)]_vars

\* On the detail page three operations were issued, a request of each of
\* three kinds has failed, none was issued again and nothing is in flight.
C30_Witness ==
  /\ Phase = "Ready"
  /\ OpsIssued = MaxOps
  /\ Cardinality(failed) = 3
  /\ InFlight = 0

DetailLoadStep == \E k \in LoadKinds, ok \in BOOLEAN : LoadSettle(k, ok)

\* The step is one of handleToggleWatched: the call or its rollback.
ToggleStep ==
  \/ \E ep \in {1, 2, 3} : Toggle(ep)
  \/ \E r \in toggleReqs : ToggleSettle(r, FALSE)

\* The step is the settlement of an add or a remove of the owner's session.
CommentStep(owner) ==
  \/ \E r \in addReqs, ok \in BOOLEAN : r.owner = owner /\ AddSettle(r, ok)
  \/ \E r \in deleteReqs, ok \in BOOLEAN : r.owner = owner /\ DeleteSettle(r, ok)

\* The step is one of the modal's open (its load settles) or its close.
ModalStep ==
  \/ \E r \in episodeLoadReqs, ok \in BOOLEAN : EpisodeLoadSettle(r, ok)
  \/ CloseEpisodeModal

\* C32: each piece of state has a single writer.  The watched set is changed
\* only by the detail load and by toggle and its rollback, the show's comment
\* list only by the detail load and the show's add and remove, the episode
\* comment list only by the modal's open, close, add and remove, and an
\* insight only by a generation of its scope or by the modal's open and close.
C32_SingleWriter ==
  [][/\ watchedEpisodes' = watchedEpisodes \/ DetailLoadStep \/ ToggleStep
     /\ showComments' = showComments \/ DetailLoadStep \/ CommentStep("show")
     /\ episodeComments' = episodeComments \/ ModalStep \/ CommentStep("episode")
     /\ \/ showInsight' = showInsight
        \/ \E r \in insightReqs : r.session = 0 /\ InsightSettle(r, TRUE)
     /\ \/ episodeInsight' = episodeInsight
        \/ \E r \in insightReqs : r.session # 0 /\ InsightSettle(r, TRUE)
        \/ CloseEpisodeModal
        \/ \E ep \in {1, 2, 3} : OpenEpisode(ep)]_vars

\* The modal was opened on episode 1 and a comment was added to each list:
\* each list holds its own new comment, and the watched set, which none of
\* these operations writes, is the loaded one.
C32_Witness ==
  /\ Phase = "Ready"
  /\ selectedEpisode = 1
  /\ Len(episodeComments) = 2
  /\ Len(showComments) = 2
  /\ OpsIssued = MaxOps
  /\ watchedEpisodes = InitialWatched[1]

\* C33: a keystroke issues no search request, and a request is issued only
\* in the step in which the debounce window runs out after the last
\* keystroke, for the value the input then holds; that step issues one
\* request and ends the window, so the values typed in between are never
\* searched and no second request follows without a new keystroke.
C33_DebouncedSearchOnly ==
  [][/\ query' # query => UNCHANGED <<searchReqs, searchSeq>>
     /\ searchSeq' > searchSeq =>
          /\ query' = query
          /\ keystrokes > 0
          /\ keystrokes' = 0
          /\ debouncedQuery' = query
          /\ searchSeq' = searchSeq + 1
          /\ Cardinality(searchReqs' \ searchReqs) = 1
          /\ \A r \in searchReqs' \ searchReqs : r.q = trim(query)]_vars

\* Two keystrokes fell into one window, the last of them leaving "a" in the
\* input: the one request issued when the window ran out is for "a".
C33_Witness ==
  /\ view = "search"
  /\ searchSeq = 1
  /\ query = <<"a">>
  /\ \E r \in searchReqs : r.keys = MaxKeystrokes /\ r.q = <<"a">>

\* C34: on the search page the loading indicator is true whenever at least
\* one search request is in flight; the settlement of one of two overlapping
\* requests does not clear it while the other is pending.
C34_LoadingWhileSearchInFlight ==
  (view = "search" /\ searchReqs # {}) => searchIsLoading

\* C35: on the search page, whenever the error message is set the displayed
\* result list is empty, for any interleaving of overlapping search requests.
C35_ErrorImpliesNoResults ==
  (view = "search" /\ searchError # Null) => results = <<>>

\* C36: whenever the modal is open on episode E, every comment of the episode
\* comment list has episode_id equal to E's id; a comment created by an add
\* issued while another episode was open is never prepended to E's list.
C36_EpisodeListOfOpenEpisode ==
  selectedEpisode # 0 =>
    \A i \in 1..Len(episodeComments) : episodeComments[i].episode_id = selectedEpisode

\* The getEpisodeComments request of the latest open is still in flight.
LatestLoadPending == \E r \in episodeLoadReqs : r.id = issued["open"]

\* C37: while the modal is open on episode E and E's comment load has not
\* settled, the episode-comments loading indicator is true; the settlement of
\* a load issued by an earlier open does not clear it.
C37_LoadingUntilOwnLoadSettles ==
  (view = "show" /\ selectedEpisode # 0 /\ LatestLoadPending)
    => isLoadingEpisodeComments

\* C38: in the step in which a load of episode comments fails while the modal
\* is open, the modal stays open on the same episode, the episode list is
\* empty, the loading indicator is cleared, and the detail view keeps its
\* phase with its whole-view error untouched (on a Ready view: not set).
C38_EpisodeLoadFailureKeepsModal ==
  [][\A r \in episodeLoadReqs :
       \/ /\ selectedEpisode' = selectedEpisode
          /\ episodeComments' = <<>>
          /\ ~isLoadingEpisodeComments'
          /\ error' = error
          /\ Phase' = Phase
          /\ Phase = "Ready" => error' = Null
       \/ selectedEpisode = 0
       \/ ~EpisodeLoadSettle(r, FALSE)
    ]_vars

\* The only load of the session, of episode 1, has failed: the modal is still
\* open on episode 1 of a Ready view, nothing is listed, nothing is loading.
C38_Witness ==
  /\ Phase = "Ready"
  /\ error = Null
  /\ selectedEpisode = 1
  /\ issued["open"] = 1
  /\ episodeLoadReqs = {}
  /\ episodeCommentsFrom = 0
  /\ episodeComments = <<>>
  /\ ~isLoadingEpisodeComments

\* A flag raised by a call that awaits a request is lowered again: the
\* loading flag of the detail view, of the search, of the two insight panels
\* and of the episode comments, and the submitting flag of the two forms.
C39_FlagsCleared ==
  /\ (Phase = "Loading") ~> (Phase # "Loading")
  /\ searchIsLoading ~> ~searchIsLoading
  /\ isLoadingInsight ~> ~isLoadingInsight
  /\ isLoadingEpisodeInsight ~> ~isLoadingEpisodeInsight
  /\ isLoadingEpisodeComments ~> ~isLoadingEpisodeComments
  /\ showForm.isSubmitting ~> ~showForm.isSubmitting
  /\ episodeForm.isSubmitting ~> ~episodeForm.isSubmitting

\* An operation that a flag has disabled is offered again: after a
\* generation was started on a panel, generate can be called on it again
\* (or the page has been left, or the modal closed).
C39_OperationsEnabledAgain ==
  /\ (Phase = "Ready" /\ isLoadingInsight)
       ~> (Phase # "Ready"
             \/ canGenerate(showInsight, isLoadingInsight, showHasGenerated))
  /\ (Phase = "Ready" /\ selectedEpisode # 0 /\ isLoadingEpisodeInsight)
       ~> (Phase # "Ready" \/ selectedEpisode = 0
             \/ canGenerate(episodeInsight, isLoadingEpisodeInsight,
                            episodeHasGenerated))

\* C39: every in-flight flag is eventually cleared once its request has
\* settled, with success or with failure, so that no operation stays
\* disabled forever.
C39_NoFlagOrOperationStuck ==
  /\ C39_FlagsCleared
  /\ C39_OperationsEnabledAgain

\* C40: the settlement of createComment for a form that is still mounted
\* clears the form's draft when the add succeeded and only then: when the add
\* failed the draft is the one held before the settlement, the submitting
\* flag is cleared, and the submit button is enabled again for a draft with
\* content; no settlement of another request changes a draft.
C40_DraftClearedOnlyOnSuccess ==
  [][/\ \A r \in addReqs :
          \/ ~FormMounted(r)
          \/ /\ \/ ~AddSettle(r, FALSE)
                \/ /\ formOf(r.owner)'.newComment = formOf(r.owner).newComment
                   /\ ~formOf(r.owner)'.isSubmitting
                   /\ trimContent(formOf(r.owner).newComment).len # 0
                        => canSubmit(formOf(r.owner)')
             /\ \/ ~AddSettle(r, TRUE)
                \/ /\ formOf(r.owner)'.newComment = NoDraft
                   /\ ~formOf(r.owner)'.isSubmitting
     /\ \/ ~Settles
        \/ \E r \in addReqs : FormMounted(r) /\ AddSettle(r, TRUE)
        \/ /\ showForm'.newComment = showForm.newComment
           /\ episodeForm'.newComment = episodeForm.newComment
    ]_vars

\* The only add of the session, from the show's form, has failed: the draft
\* with content is still in the form, the form is not submitting, the submit
\* button is enabled and the list is the loaded one.
C40_Witness ==
  /\ Phase = "Ready"
  /\ "add" \in failed
  /\ issued["add"] = 1
  /\ addReqs = {}
  /\ showForm.newComment = [ws |-> 1, len |-> 1]
  /\ canSubmit(showForm)
  /\ showComments = loadedComments

(* =========================== specifications =========================== *)
NextSearch == Type \/ DebounceElapsed \/ SearchSucceeds \/ SearchFails

SearchSpec == Init /\ [][NextSearch]_vars

\* The way from the search page into a loaded detail page.
NextActivation ==
  \/ TypeShowName
  \/ DebounceElapsed
  \/ SearchSucceeds
  \/ SearchFails
  \/ Activate
  \/ LoadSucceeds
  \/ LoadFails

NextDetail == NextActivation \/ Back \/ ChangeSeason

DetailSpec == Init /\ [][NextDetail]_vars

NextWatch == NextDetail \/ ToggleWatched \/ ToggleSucceeds \/ ToggleFails

WatchSpec == Init /\ [][NextWatch]_vars

NextInsight ==
  \/ InsightSucceeds
  \/ InsightFails
  \/ GenerateShowInsight
  \/ GenerateEpisodeInsight

NextEpisodeModal ==
  \/ ViewEpisodeComments
  \/ EpisodeLoadSucceeds
  \/ EpisodeLoadFails
  \/ CloseEpisodeModal

NextModal == NextDetail \/ NextEpisodeModal \/ NextInsight

ModalSpec == Init /\ [][NextModal]_vars

NextComment ==
  \/ NextActivation
  \/ NextEpisodeModal
  \/ EditComment
  \/ SubmitComment
  \/ AddSucceeds
  \/ AddFails

CommentSpec == Init /\ [][NextComment]_vars

\* Every operation of the detail page, for at most MaxOps operations.
NextSession ==
  \/ NextActivation
  \/ (OpsIssued < MaxOps /\ ToggleWatched)
  \/ ToggleSucceeds
  \/ ToggleFails
  \/ (OpsIssued < MaxOps /\ ViewEpisodeComments)
  \/ EpisodeLoadSucceeds
  \/ EpisodeLoadFails
  \/ CloseEpisodeModal
  \/ (OpsIssued < MaxOps /\ GenerateShowInsight)
  \/ (OpsIssued < MaxOps /\ GenerateEpisodeInsight)
  \/ InsightSucceeds
  \/ InsightFails
  \/ EditComment
  \/ (OpsIssued < MaxOps /\ SubmitComment)
  \/ AddSucceeds
  \/ AddFails
  \/ (OpsIssued < MaxOps /\ DeleteComment)
  \/ DeleteSucceeds
  \/ DeleteFails

SessionSpec == Init /\ [][NextSession]_vars

\* The operations that raise an in-flight flag (search, the loads of an
\* activation, episode comment loads, generations and adds), for at most
\* MaxOps operations of the detail page.
NextFlagged ==
  \/ NextActivation
  \/ (OpsIssued < MaxOps /\ ViewEpisodeComments)
  \/ EpisodeLoadSucceeds
  \/ EpisodeLoadFails
  \/ CloseEpisodeModal
  \/ (OpsIssued < MaxOps /\ GenerateShowInsight)
  \/ (OpsIssued < MaxOps /\ GenerateEpisodeInsight)
  \/ InsightSucceeds
  \/ InsightFails
  \/ EditComment
  \/ (OpsIssued < MaxOps /\ SubmitComment)
  \/ AddSucceeds
  \/ AddFails

\* Every request is answered: a fetch in flight resolves or rejects, and the
\* continuation of the handler that awaits it is run by the event loop.
RequestsSettle ==
  /\ WF_vars(SearchSucceeds \/ SearchFails)
  /\ WF_vars(LoadSucceeds \/ LoadFails)
  /\ WF_vars(EpisodeLoadSucceeds \/ EpisodeLoadFails)
  /\ WF_vars(InsightSucceeds \/ InsightFails)
  /\ WF_vars(AddSucceeds \/ AddFails)

\* The flag-raising operations, with every request answered.
TerminationSpec == Init /\ [][NextFlagged]_vars /\ RequestsSettle
====
